---- MODULE Spec2Model ----
(***************************************************************************)
(* Model of tweepy/binder.py: bind_api, APIMethod.__init__,                *)
(* APIMethod.build_parameters and APIMethod.execute (cache lookup, retry   *)
(* loop with rate-limit gate, error surfacing, parse and cache store).     *)
(***************************************************************************)
EXTENDS Integers, Sequences, FiniteSets, TLC

(* ---------------------------------------------------------------------- *)
(* Bounds of the model                                                     *)
(* ---------------------------------------------------------------------- *)
MaxRetryCount == 1
MaxExtraSends == 1
MaxSchemaLen == 2

(* Python's None and an optional value *)
None == <<>>
Some(v) == <<v>>

(* ---------------------------------------------------------------------- *)
(* Input alphabets                                                         *)
(* ---------------------------------------------------------------------- *)
StartTime == 10
ResetFuture == "13"
RetryDelays == {0}
RetryErrorSets == {{}, {500}, {429, 500}}
HttpMethods == {"GET", "POST"}
Paths == {"/a.json"}
Schemas == {<<>>, <<"id">>}
ArgValues == {"None", "int 7"}
ArgTuples == {<<>>} \cup {<<a>> : a \in ArgValues} \cup {<<"int 7", "int 7">>}
KwargTuples == {<<>>} \cup {<<<<"id", v>>>> : v \in {"None", "int 7"}}
Results == {"", "r1"}

(* the inputs of build_parameters that are enumerated in full: schemas  *)
(* of distinct names, up to one positional argument more than the longest *)
(* schema, keyword arguments with distinct names                           *)
ParamNames == {"id", "q", "n"}
KeywordNames == {"id", "q"}
Distinct(s) == \A i, j \in 1..Len(s) : i # j => s[i] # s[j]
BuildSchemas ==
    {s \in UNION {[1..k -> ParamNames] : k \in 0..MaxSchemaLen} : Distinct(s)}
BuildArgs == UNION {[1..k -> ArgValues] : k \in 0..MaxSchemaLen + 1}
BuildKwargs ==
    {s \in UNION {[1..k -> KeywordNames \X ArgValues] : k \in 0..Cardinality(KeywordNames)} :
        \A i, j \in 1..Len(s) : i # j => s[i][1] # s[j][1]}
BuildInputs ==
    [allowed_param : BuildSchemas, args : BuildArgs, kwargs : BuildKwargs]
NoInputs == [allowed_param |-> <<>>, args |-> <<>>, kwargs |-> <<>>]
ErrorBodies == {"rate limit body", "not found body", "garbage"}

(* str(arg) of build_parameters, on the argument values of the model *)
Str(a) ==
    CASE a = "int 7" -> "7"
      [] OTHER -> a

(* urllib.parse.quote_plus, on the parameter strings of the model *)
QuotePlus(s) ==
    CASE s = "/a.json" -> "%2Fa.json"
      [] OTHER -> s

(* int(header) on the header strings of the model *)
IntOf(s) ==
    CASE s = "0" -> 0
      [] s = "1" -> 1
      [] s = "5" -> 5
      [] s = "13" -> 13
      [] OTHER -> 0

RECURSIVE urlencode(_)
urlencode(params) ==
    IF params = <<>> THEN ""
    ELSE LET p == Head(params)
             rest == Tail(params)
         IN QuotePlus(p[1]) \o "=" \o QuotePlus(p[2])
              \o (IF rest = <<>> THEN "" ELSE "&" \o urlencode(rest))

(* dict lookups on session.params, an insertion-ordered list of pairs *)
HasKey(params, k) == \E i \in 1..Len(params) : params[i][1] = k

SetItem(params, k, v) ==
    IF HasKey(params, k)
    THEN [i \in 1..Len(params) |-> IF params[i][1] = k THEN <<k, v>> ELSE params[i]]
    ELSE Append(params, <<k, v>>)

(* a positional loop that drops the arguments beyond the schema *)
RECURSIVE BuildPositionalLenient(_, _, _, _)
BuildPositionalLenient(allowed_param, args, idx, params) ==
    IF idx > Len(args) THEN [err |-> "", params |-> params]
    ELSE IF args[idx] = "None" \/ idx > Len(allowed_param)
         THEN BuildPositionalLenient(allowed_param, args, idx + 1, params)
         ELSE BuildPositionalLenient(allowed_param, args, idx + 1,
                                     SetItem(params, allowed_param[idx], Str(args[idx])))

(* the positional loop of build_parameters: [err, params] *)
RECURSIVE BuildPositional(_, _, _, _)
BuildPositional(allowed_param, args, idx, params) ==
    IF idx > Len(args) THEN [err |-> "", params |-> params]
    ELSE IF args[idx] = "None"
         THEN BuildPositional(allowed_param, args, idx + 1, params)
         ELSE IF idx > Len(allowed_param)
              THEN [err |-> "Too many parameters supplied!", params |-> params]
              ELSE BuildPositional(allowed_param, args, idx + 1,
                                   SetItem(params, allowed_param[idx], Str(args[idx])))

(* a keyword loop that overwrites a parameter already present *)
RECURSIVE BuildKeywordsOverwrite(_, _, _)
BuildKeywordsOverwrite(kwargs, idx, params) ==
    IF idx > Len(kwargs) THEN [err |-> "", params |-> params]
    ELSE IF kwargs[idx][2] = "None"
         THEN BuildKeywordsOverwrite(kwargs, idx + 1, params)
         ELSE BuildKeywordsOverwrite(kwargs, idx + 1,
                                     SetItem(params, kwargs[idx][1], Str(kwargs[idx][2])))

(* the keyword loop of build_parameters *)
RECURSIVE BuildKeywords(_, _, _)
BuildKeywords(kwargs, idx, params) ==
    IF idx > Len(kwargs) THEN [err |-> "", params |-> params]
    ELSE IF kwargs[idx][2] = "None"
         THEN BuildKeywords(kwargs, idx + 1, params)
         ELSE IF HasKey(params, kwargs[idx][1])
              THEN [err |-> "Multiple values for parameter supplied!", params |-> params]
              ELSE BuildKeywords(kwargs, idx + 1,
                                 Append(params, <<kwargs[idx][1], Str(kwargs[idx][2])>>))

build_parameters(allowed_param, args, kwargs) ==
    LET pos == BuildPositional(allowed_param, args, 1, <<>>)
    IN IF pos.err # "" THEN pos ELSE BuildKeywords(kwargs, 1, pos.params)

(* the cache key of execute: url + '?' + urlencode(session.params) *)
CacheKey(u, params) == u \o "?" \o urlencode(params)

(* ---------------------------------------------------------------------- *)
(* State                                                                   *)
(* ---------------------------------------------------------------------- *)
VARIABLES
    auth,               \* api.auth is configured
    cache_configured,   \* api.cache is configured
    wait_on_rate_limit, \* api.wait_on_rate_limit
    retry_count,        \* api.retry_count
    retry_errors,       \* api.retry_errors
    retry_delay,        \* api.retry_delay
    cache,              \* contents of api.cache: key -> stored result
    cached_result,      \* api.cached_result
    last_response,      \* api.last_response
    session,            \* method.session: "none", "open", "closed"
    url,                \* api_root + path of the method object
    params,             \* method.session.params
    http_method,        \* the verb handed to execute
    use_cache,          \* the use_cache argument of execute
    remaining_calls,    \* method._remaining_calls
    reset_time,         \* method._reset_time
    retries_performed,  \* local of execute
    resp,               \* local of execute: the last response received
    headers,            \* resp.headers until the response is classified
    pc,                 \* position of the call
    outcome,            \* what the call returned or raised
    now,                \* int(time.time())
    sends,              \* session.request calls of this call
    applies,            \* auth.apply_auth calls of this call
    sleeps,             \* time.sleep calls of this call
    continues,          \* iterations of this call ended by the continue statement
    cache_reads,        \* cache.get calls of this call: the keys
    cache_writes,       \* cache.store calls of this call: <<key, value>>
    calls,              \* bind_api calls started so far
    max_calls,          \* bind_api calls the caller makes
    server_status,      \* the status the server always answers with, 0 for any
    prev,               \* summary of the previous bind_api call
    given,              \* allowed_param, args and kwargs of a caller that fixes them
    other_pc,           \* position of a second invoker bound to the same api
    other_resp          \* local resp of the second invoker's execute

cfg == <<auth, cache_configured, wait_on_rate_limit, retry_count, retry_errors, retry_delay,
         max_calls, server_status, given, other_pc, other_resp>>
obj == <<session, url, params, http_method, use_cache>>
rate == <<remaining_calls, reset_time>>
hist == <<sends, applies, sleeps, continues, cache_reads, cache_writes>>
vars == <<cfg, cache, cached_result, last_response, obj, rate, retries_performed,
          resp, headers, pc, outcome, now, hist, calls, max_calls, prev>>

NoOutcome == [kind |-> "none", val |-> "", msg |-> ""]
Return(v) == [kind |-> "return", val |-> v, msg |-> ""]
Raise(e, m) == [kind |-> "raise", val |-> e, msg |-> m]

api_root == "/1.1"
upload_root == "/1.1"

(* the responses the transport can return: a status and the rate-limit  *)
(* headers x-rate-limit-remaining, x-rate-limit-reset and retry-after    *)
Statuses == {200, 429, 500}
NoHeaders == [remaining |-> None, reset |-> None, retry_after |-> None]
RateHeaders ==
    {<<None, None>>, <<Some("0"), None>>, <<Some("0"), Some(ResetFuture)>>,
     <<Some("1"), Some(ResetFuture)>>}
HeadersOf(status) ==
    IF status = 200 THEN {NoHeaders}
    ELSE {[remaining |-> rh[1], reset |-> rh[2], retry_after |-> ra] :
            rh \in RateHeaders,
            ra \in (IF status = 429 THEN {None, Some("5")} ELSE {None})}

(* cache.get of the cache collaborator: the stored value or None.  The  *)
(* cache is a set of <<key, value>> entries, at most one per key.        *)
CacheGet(c, key) ==
    IF \E e \in c : e[1] = key
    THEN Some((CHOOSE e \in c : e[1] = key)[2])
    ELSE None

(* cache.store of the cache collaborator *)
CacheStore(c, key, value) ==
    {e \in c : e[1] # key} \cup {<<key, value>>}

InitialCaches ==
    {{}} \cup {{<<CacheKey(api_root \o p, <<>>), "r1">>} : p \in Paths}

(* the api object and the clock before the first call *)
InitApi ==
    /\ auth \in BOOLEAN
    /\ cache_configured \in BOOLEAN
    /\ wait_on_rate_limit \in BOOLEAN
    /\ retry_errors \in RetryErrorSets
    /\ retry_delay \in RetryDelays
    /\ cache \in (IF cache_configured THEN InitialCaches ELSE {{}})
    /\ cached_result = FALSE
    /\ last_response = None
    /\ now = StartTime

(* no APIMethod object exists yet *)
InitCall ==
    /\ session = "none"
    /\ url = ""
    /\ params = <<>>
    /\ http_method = "GET"
    /\ use_cache = TRUE
    /\ remaining_calls = None
    /\ reset_time = None
    /\ retries_performed = 0
    /\ resp = None
    /\ headers = NoHeaders
    /\ pc = "idle"
    /\ outcome = NoOutcome
    /\ sends = 0
    /\ applies = 0
    /\ sleeps = 0
    /\ continues = 0
    /\ cache_reads = <<>>
    /\ cache_writes = <<>>
    /\ calls = 0
    /\ prev = None
    /\ other_pc = "idle"
    /\ other_resp = None

(* one bind_api call, any retry budget *)
Init ==
    /\ InitApi
    /\ InitCall
    /\ retry_count \in 0..MaxRetryCount
    /\ max_calls = 1
    /\ server_status = 0
    /\ given = NoInputs

(* one bind_api call against a server that always answers with the same *)
(* status                                                                 *)
InitSame ==
    /\ InitApi
    /\ InitCall
    /\ retry_count \in 0..MaxRetryCount
    /\ max_calls = 1
    /\ server_status \in Statuses
    /\ given = NoInputs

(* two bind_api calls in sequence on an api with an empty cache, without *)
(* retries and without rate-limit waiting                                 *)
InitTwice ==
    /\ InitApi
    /\ InitCall
    /\ cache_configured
    /\ cache = {}
    /\ ~wait_on_rate_limit
    /\ retry_count = 0
    /\ max_calls = 2
    /\ server_status = 0
    /\ given = NoInputs

(* two bind_api calls in sequence on an api whose cache may hold a       *)
(* result, without retries and without rate-limit waiting                  *)
InitSeq ==
    /\ InitApi
    /\ InitCall
    /\ cache_configured
    /\ ~wait_on_rate_limit
    /\ retry_count = 0
    /\ max_calls = 2
    /\ server_status = 0
    /\ given = NoInputs

(* one bind_api call, without retries and without rate-limit waiting, on *)
(* an api that a second invoker is bound to                                *)
InitTwo ==
    /\ InitApi
    /\ InitCall
    /\ ~wait_on_rate_limit
    /\ retry_errors = {}
    /\ retry_count = 0
    /\ max_calls = 1
    /\ server_status = 0
    /\ given = NoInputs

(* one bind_api call whose schema, positional and keyword arguments are  *)
(* any of BuildInputs, on an api without cache, retries or waiting         *)
InitBuild ==
    /\ InitApi
    /\ InitCall
    /\ ~cache_configured
    /\ ~wait_on_rate_limit
    /\ retry_errors = {}
    /\ retry_count = 0
    /\ max_calls = 1
    /\ server_status = 200
    /\ given \in BuildInputs

(* ---------------------------------------------------------------------- *)
(* bind_api and APIMethod.__init__                                         *)
(* ---------------------------------------------------------------------- *)

(* what is remembered of a finished bind_api call: the cache key of its *)
(* request, whether it took part in caching, whether execute ran, its     *)
(* sends, what it stored, and whether the cache holds an entry for its    *)
(* key when the next call starts                                          *)
Summary ==
    [key |-> CacheKey(url, params),
     cacheable |-> (use_cache /\ cache_configured /\ http_method = "GET"),
     executed |-> (outcome.val # "method" /\ url # ""),
     sends |-> sends,
     cache_writes |-> cache_writes,
     held |-> (\E e \in cache : e[1] = CacheKey(url, params))]

(* a validation failure noticed only after a first send *)
RaiseAfterSend(msg, built_params) ==
    /\ outcome' = Raise("TweepError", msg)
    /\ pc' = "raised"
    /\ url' = ""
    /\ params' = built_params
    /\ remaining_calls' = None
    /\ reset_time' = None
    /\ sends' = 1
    /\ applies' = 0
    /\ cache_reads' = <<>>

(* APIMethod(...) raises: nothing but the session exists of the object *)
RaiseAtConstruction(msg, built_params) ==
    /\ outcome' = Raise("TweepError", msg)
    /\ pc' = "raised"
    /\ url' = ""
    /\ params' = built_params
    /\ remaining_calls' = None
    /\ reset_time' = None
    /\ sends' = 0
    /\ applies' = 0
    /\ cache_reads' = <<>>

(* bind_api: construct the APIMethod, then execute it (or hand it back   *)
(* when create is set)                                                    *)
BindApi(allowed_param, args, kwargs, path, require_auth, upload_api, m, uc, create) ==
    /\ pc = "idle"
    /\ calls < max_calls
    /\ calls' = calls + 1
    /\ prev' = IF calls = 0 THEN None ELSE Some(Summary)
    /\ session' = "open"
    /\ sleeps' = 0
    /\ continues' = 0
    /\ cache_writes' = <<>>
    /\ resp' = None
    /\ headers' = NoHeaders
    /\ retries_performed' = 0
    /\ http_method' = m
    /\ use_cache' = uc
    /\ LET built == build_parameters(allowed_param, args, kwargs)
       IN IF require_auth /\ ~auth
          THEN RaiseAtConstruction("Authentication required!", <<>>)
          ELSE IF built.err # ""
          THEN RaiseAtConstruction(built.err, built.params)
          ELSE /\ params' = built.params
               /\ url' = (IF upload_api THEN upload_root ELSE api_root) \o path
               /\ remaining_calls' = None
               /\ reset_time' = None
               /\ sends' = 0
               /\ applies' = 0
               /\ cache_reads' = <<>>
               /\ IF create
                  THEN /\ outcome' = Return("method")
                       /\ pc' = "finally"
                  ELSE /\ outcome' = NoOutcome
                       /\ pc' = "execute"
    /\ UNCHANGED <<cfg, cache, cached_result, last_response, now>>

(* bind_api called with the allowed_param, args and kwargs of given; the *)
(* method object is handed back (create) or executed                      *)
BindGiven ==
    \E path \in Paths, create \in BOOLEAN :
        BindApi(given.allowed_param, given.args, given.kwargs, path,
                FALSE, FALSE, "GET", TRUE, create)

(* the exception of APIMethod(...) leaves bind_api before its try block *)
Propagate ==
    /\ pc = "raised"
    /\ pc' = "idle"
    /\ UNCHANGED <<cfg, cache, cached_result, last_response, obj, rate,
                   retries_performed, resp, headers, outcome, now, hist, calls, prev>>

(* finally: method.session.close() *)
Finally ==
    /\ pc = "finally"
    /\ session' = "closed"
    /\ pc' = "idle"
    /\ UNCHANGED <<cfg, cache, cached_result, last_response, url, params,
                   http_method, use_cache, rate, retries_performed, resp, headers,
                   outcome, now, hist, calls, prev>>

(* ---------------------------------------------------------------------- *)
(* APIMethod.execute                                                       *)
(* ---------------------------------------------------------------------- *)

UsesCache == use_cache /\ cache_configured /\ http_method = "GET"

(* the lookup key computed from the path alone *)
LookupKeyPathOnly == url

(* the key of the lookup at the start of execute *)
LookupKey == CacheKey(url, params)

(* the store key computed from the path alone *)
StoreKeyPathOnly == url

(* the key of the store at the end of execute *)
StoreKey == CacheKey(url, params)

(* if cache_result: a stored, truthy value was found *)
CacheHit(cache_result) == cache_result # None /\ cache_result[1] # ""

(* a cache hit that marks the result but misses the return *)
CacheHitFallsThrough ==
    /\ pc = "execute"
    /\ UsesCache
    /\ CacheHit(CacheGet(cache, LookupKey))
    /\ cache_reads' = Append(cache_reads, LookupKey)
    /\ cached_result' = TRUE
    /\ retries_performed' = 0
    /\ pc' = "loop"
    /\ UNCHANGED <<cfg, cache, last_response, obj, rate, resp, headers,
                   outcome, now, sends, applies, sleeps, continues,
                   cache_writes, calls, prev>>

(* entry of execute with a cache hit: mark and return the cached value *)
CacheHitReturn ==
    /\ pc = "execute"
    /\ UsesCache
    /\ CacheHit(CacheGet(cache, LookupKey))
    /\ cache_reads' = Append(cache_reads, LookupKey)
    /\ cached_result' = TRUE
    /\ outcome' = Return(CacheGet(cache, LookupKey)[1])
    /\ pc' = "finally"
    /\ UNCHANGED <<cfg, cache, last_response, obj, rate, retries_performed,
                   resp, headers, now, sends, applies, sleeps, continues, cache_writes, calls, prev>>

(* entry of execute without a hit that leaves the marker as it was *)
CacheMissKeepsMarker ==
    /\ pc = "execute"
    /\ IF UsesCache
       THEN /\ ~CacheHit(CacheGet(cache, LookupKey))
            /\ cache_reads' = Append(cache_reads, LookupKey)
       ELSE UNCHANGED cache_reads
    /\ retries_performed' = 0
    /\ pc' = "loop"
    /\ UNCHANGED <<cfg, cache, cached_result, last_response, obj, rate, resp, headers,
                   outcome, now, sends, applies, sleeps, continues, cache_writes,
                   calls, prev>>

(* entry of execute without a hit: reset the marker, enter the loop *)
CacheMiss ==
    /\ pc = "execute"
    /\ IF UsesCache
       THEN /\ ~CacheHit(CacheGet(cache, LookupKey))
            /\ cache_reads' = Append(cache_reads, LookupKey)
       ELSE UNCHANGED cache_reads
    /\ cached_result' = FALSE
    /\ retries_performed' = 0
    /\ pc' = "loop"
    /\ UNCHANGED <<cfg, cache, last_response, obj, rate, resp, headers, outcome, now,
                   sends, applies, sleeps, continues, cache_writes, calls, prev>>

(* a gate that only closes below zero remaining calls *)
GateClosedBelowZero ==
    /\ wait_on_rate_limit
    /\ reset_time # None
    /\ remaining_calls # None
    /\ remaining_calls[1] < 0

(* the rate-limit gate holds: waiting enabled, both fields known, none left *)
GateClosed ==
    /\ wait_on_rate_limit
    /\ reset_time # None
    /\ remaining_calls # None
    /\ remaining_calls[1] < 1

(* the time slept by the gate: sleep_time + 1, an extra second *)
GateSleep == reset_time[1] - now + 1

(* a loop test that admits one iteration too many *)
LoopContinuesOffByOne == retries_performed <= retry_count + 1

(* the test of the while loop *)
LoopContinues == retries_performed < retry_count + 1

(* loop test, then the rate-limit gate of the iteration *)
LoopHead ==
    /\ pc = "loop"
    /\ IF LoopContinues
       THEN /\ pc' = "auth"
            /\ IF GateClosed /\ reset_time[1] - now > 0
               THEN /\ sleeps' = sleeps + 1
                    /\ now' = now + GateSleep
               ELSE UNCHANGED <<sleeps, now>>
       ELSE /\ pc' = "after"
            /\ UNCHANGED <<sleeps, now>>
    /\ UNCHANGED <<cfg, cache, cached_result, last_response, obj, rate,
                   retries_performed, resp, headers, outcome, sends, applies,
                   continues, cache_reads, cache_writes, calls, prev>>

(* authentication applied for the first attempt only *)
ApplyAuthOnce ==
    /\ pc = "auth"
    /\ applies' = (IF auth /\ applies = 0 THEN applies + 1 ELSE applies)
    /\ pc' = "send"
    /\ UNCHANGED <<cfg, cache, cached_result, last_response, obj, rate,
                   retries_performed, resp, headers, outcome, now, sends, sleeps, continues,
                   cache_reads, cache_writes, calls, prev>>

(* apply authentication *)
ApplyAuth ==
    /\ pc = "auth"
    /\ applies' = (IF auth THEN applies + 1 ELSE applies)
    /\ pc' = "send"
    /\ UNCHANGED <<cfg, cache, cached_result, last_response, obj, rate,
                   retries_performed, resp, headers, outcome, now, sends, sleeps, continues,
                   cache_reads, cache_writes, calls, prev>>

(* session.request returns a response, the sends-th of this call *)
SendResponse(status, h) ==
    /\ pc = "send"
    /\ server_status \in {0, status}
    /\ sends < retry_count + 1 + MaxExtraSends
    /\ sends' = sends + 1
    /\ resp' = Some([status |-> status, attempt |-> sends + 1])
    /\ headers' = h
    /\ pc' = "classify"
    /\ UNCHANGED <<cfg, cache, cached_result, last_response, obj, rate,
                   retries_performed, outcome, now, applies, sleeps, continues,
                   cache_reads, cache_writes, calls, prev>>

(* a transport failure that is slept on and retried like a response *)
SendFailsRetried ==
    /\ pc = "send"
    /\ sends < retry_count + 1 + MaxExtraSends
    /\ sends' = sends + 1
    /\ outcome' = Raise("TweepError", "Failed to send request")
    /\ sleeps' = sleeps + 1
    /\ now' = now + retry_delay
    /\ retries_performed' = retries_performed + 1
    /\ pc' = "loop"
    /\ UNCHANGED <<cfg, cache, cached_result, last_response, obj, rate,
                   resp, headers, applies, continues, cache_reads,
                   cache_writes, calls, prev>>

(* session.request raises: wrapped into TweepError and raised *)
SendFails ==
    /\ pc = "send"
    /\ sends < retry_count + 1 + MaxExtraSends
    /\ sends' = sends + 1
    /\ outcome' = Raise("TweepError", "Failed to send request")
    /\ pc' = "finally"
    /\ UNCHANGED <<cfg, cache, cached_result, last_response, obj, rate,
                   retries_performed, resp, headers, now, applies, sleeps, continues,
                   cache_reads, cache_writes, calls, prev>>

Is2xx(status) == 200 <= status /\ status < 300

(* _remaining_calls kept as it is when the header is absent *)
NextRemainingNoDecrement(r) ==
    IF r.remaining # None THEN Some(IntOf(r.remaining[1])) ELSE remaining_calls

(* _remaining_calls after a non-2xx response *)
NextRemaining(r) ==
    IF r.remaining # None THEN Some(IntOf(r.remaining[1]))
    ELSE IF remaining_calls # None THEN Some(remaining_calls[1] - 1)
    ELSE None

(* _reset_time after a non-2xx response *)
NextReset(r) ==
    IF r.reset # None THEN Some(IntOf(r.reset[1])) ELSE reset_time

(* a disposition that never breaks on a status outside the allow-list *)
DispositionNoBreak(r, rem) ==
    IF r.status \in {420, 429} /\ wait_on_rate_limit
    THEN IF rem = Some(0) THEN "continue" ELSE "retry"
    ELSE "retry"

(* a disposition with the allow-list test inverted *)
DispositionInverted(r, rem) ==
    IF r.status \in {420, 429} /\ wait_on_rate_limit
    THEN IF rem = Some(0) THEN "continue" ELSE "retry"
    ELSE IF retry_errors # {} /\ r.status \in retry_errors
         THEN "break"
         ELSE "retry"

(* what the loop does with a non-2xx response, rem being the updated    *)
(* _remaining_calls: "continue", "break" or "retry" (sleep, count)       *)
Disposition(r, rem) ==
    IF r.status \in {420, 429} /\ wait_on_rate_limit
    THEN IF rem = Some(0) THEN "continue" ELSE "retry"
    ELSE IF retry_errors # {} /\ r.status \notin retry_errors
         THEN "break"
         ELSE "retry"

(* a delay that ignores the retry-after header *)
RetryDelayDefault(r) == retry_delay

(* the delay slept before the next attempt *)
RetryDelay(r) ==
    IF r.status \in {420, 429} /\ wait_on_rate_limit /\ r.retry_after # None
    THEN IntOf(r.retry_after[1])
    ELSE retry_delay

(* the response is classified; its headers are not read afterwards *)
Classify ==
    /\ pc = "classify"
    /\ headers' = NoHeaders
    /\ LET r == [status |-> resp[1].status, remaining |-> headers.remaining,
                 reset |-> headers.reset, retry_after |-> headers.retry_after]
       IN IF Is2xx(r.status)
          THEN /\ pc' = "after"
               /\ UNCHANGED <<rate, retries_performed, sleeps, continues, now>>
          ELSE /\ remaining_calls' = NextRemaining(r)
               /\ reset_time' = NextReset(r)
               /\ LET d == Disposition(r, NextRemaining(r))
                  IN CASE d = "continue" ->
                            /\ pc' = "loop"
                            /\ continues' = continues + 1
                            /\ UNCHANGED <<retries_performed, sleeps, now>>
                       [] d = "break" ->
                            /\ pc' = "after"
                            /\ UNCHANGED <<retries_performed, sleeps, continues, now>>
                       [] OTHER ->
                            /\ sleeps' = sleeps + 1
                            /\ UNCHANGED continues
                            /\ now' = now + RetryDelay(r)
                            /\ retries_performed' = retries_performed + 1
                            /\ pc' = "loop"
    /\ UNCHANGED <<cfg, cache, cached_result, last_response, obj, resp,
                   outcome, sends, applies, cache_reads, cache_writes,
                   calls, prev>>

StatusStr(n) ==
    CASE n = 404 -> "404" [] n = 420 -> "420" [] n = 429 -> "429"
      [] n = 500 -> "500" [] OTHER -> "?"

(* parser.parse_error(resp.text): [ok, msg] *)
parse_error(text) ==
    CASE text = "rate limit body" -> [ok |-> TRUE, msg |-> "Rate limit exceeded"]
      [] text = "not found body" -> [ok |-> TRUE, msg |-> "Not found"]
      [] OTHER -> [ok |-> FALSE, msg |-> ""]

(* the message of the error raised for a non-2xx response *)
ErrorMessage(text, status) ==
    IF parse_error(text).ok THEN parse_error(text).msg
    ELSE "Twitter error response: status code = " \o StatusStr(status)

(* tweepy.error.is_rate_limit_error_message *)
is_rate_limit_error_message(msg) == msg = "Rate limit exceeded"

(* an error surfacing that tells a rate-limit error by the status code *)
AfterByStatus(text) ==
    /\ pc = "after"
    /\ last_response' = resp
    /\ IF ~Is2xx(resp[1].status)
       THEN LET error_msg == ErrorMessage(text, resp[1].status)
            IN /\ outcome' = (IF resp[1].status \in {420, 429}
                              THEN Raise("RateLimitError", error_msg)
                              ELSE Raise("TweepError", error_msg))
               /\ pc' = "finally"
       ELSE /\ pc' = "parse"
            /\ UNCHANGED outcome
    /\ UNCHANGED <<cfg, cache, cached_result, obj, rate, retries_performed,
                   resp, headers, now, hist, calls, prev>>

(* after the loop: record the response; a non-2xx response is raised.   *)
(* text is resp.text, first read here                                     *)
After(text) ==
    /\ pc = "after"
    /\ last_response' = resp
    /\ IF ~Is2xx(resp[1].status)
       THEN LET error_msg == ErrorMessage(text, resp[1].status)
            IN /\ outcome' = (IF is_rate_limit_error_message(error_msg)
                              THEN Raise("RateLimitError", error_msg)
                              ELSE Raise("TweepError", error_msg))
               /\ pc' = "finally"
       ELSE /\ pc' = "parse"
            /\ UNCHANGED outcome
    /\ UNCHANGED <<cfg, cache, cached_result, obj, rate, retries_performed,
                   resp, headers, now, hist, calls, prev>>

(* the result is stored: use_cache, a cache, GET and a truthy result *)
Stores(result) == UsesCache /\ result # ""

(* parser.parse returns result; it is stored in the cache and returned *)
Parse(result) ==
    /\ pc = "parse"
    /\ IF Stores(result)
       THEN /\ cache' = CacheStore(cache, StoreKey, result)
            /\ cache_writes' = Append(cache_writes, <<StoreKey, result>>)
       ELSE UNCHANGED <<cache, cache_writes>>
    /\ outcome' = Return(result)
    /\ pc' = "finally"
    /\ UNCHANGED <<cfg, cached_result, last_response, obj, rate,
                   retries_performed, resp, headers, now, sends, applies, sleeps, continues,
                   cache_reads, calls, prev>>

(* parser.parse raises *)
ParseFails ==
    /\ pc = "parse"
    /\ outcome' = Raise("TweepError", "Failed to parse payload")
    /\ pc' = "finally"
    /\ UNCHANGED <<cfg, cache, cached_result, last_response, obj, rate,
                   retries_performed, resp, headers, now, hist, calls, prev>>

(* the cache collaborator drops a stale entry between two calls *)
CacheExpire ==
    /\ pc = "idle"
    /\ \E e \in cache : cache' = cache \ {e}
    /\ UNCHANGED <<cfg, cached_result, last_response, obj, rate,
                   retries_performed, resp, headers, pc, outcome, now, hist,
                   calls, prev>>

(* ---------------------------------------------------------------------- *)
(* A second invoker: another APIMethod bound to the same api, executed by *)
(* another thread of the application.  It has its own session, url,       *)
(* parameters and rate-limit state; of its execute the steps are kept     *)
(* that read or write an attribute of the api object.  Its retry loop     *)
(* writes none, and is one step that ends with the last response.         *)
(* ---------------------------------------------------------------------- *)

(* what belongs to the first invoker and its caller alone *)
own == <<auth, cache_configured, wait_on_rate_limit, retry_count, retry_errors,
         retry_delay, max_calls, server_status, given, obj, rate,
         retries_performed, resp, headers, pc, outcome, now, hist, calls, prev>>

(* the cache key of the second invoker: a GET of a path, no parameters *)
OtherKey(path) == CacheKey(api_root \o path, <<>>)

(* self.api.cached_result = False, the first statement of execute *)
OtherStart ==
    /\ other_pc = "idle"
    /\ cached_result' = FALSE
    /\ other_pc' = "lookup"
    /\ UNCHANGED <<own, cache, last_response, other_resp>>

(* the cache lookup of the second invoker finds a result and returns it *)
OtherCacheHit(path) ==
    /\ other_pc = "lookup"
    /\ cache_configured
    /\ CacheHit(CacheGet(cache, OtherKey(path)))
    /\ cached_result' = TRUE
    /\ other_pc' = "done"
    /\ UNCHANGED <<own, cache, last_response, other_resp>>

(* no cache, or no result in it: the second invoker enters its loop *)
OtherCacheMiss(path) ==
    /\ other_pc = "lookup"
    /\ cache_configured => ~CacheHit(CacheGet(cache, OtherKey(path)))
    /\ other_pc' = "loop"
    /\ UNCHANGED <<own, cache, cached_result, last_response, other_resp>>

(* the retry loop of the second invoker ends with a response *)
OtherLoop(status) ==
    /\ other_pc = "loop"
    /\ other_resp' = Some([status |-> status, attempt |-> 1])
    /\ other_pc' = "after"
    /\ UNCHANGED <<own, cache, cached_result, last_response>>

(* session.request of the second invoker raises *)
OtherSendFails ==
    /\ other_pc = "loop"
    /\ other_pc' = "done"
    /\ UNCHANGED <<own, cache, cached_result, last_response, other_resp>>

(* self.api.last_response = resp; a non-2xx response is raised *)
OtherAfter ==
    /\ other_pc = "after"
    /\ last_response' = other_resp
    /\ other_pc' = (IF Is2xx(other_resp[1].status) THEN "parse" ELSE "done")
    /\ UNCHANGED <<own, cache, cached_result, other_resp>>

(* the second invoker parses its payload and stores a truthy result *)
OtherParse(path, result) ==
    /\ other_pc = "parse"
    /\ cache' = (IF cache_configured /\ result # ""
                 THEN CacheStore(cache, OtherKey(path), result)
                 ELSE cache)
    /\ other_pc' = "done"
    /\ UNCHANGED <<own, cached_result, last_response, other_resp>>

Next ==
    \/ \E allowed_param \in Schemas, args \in ArgTuples, kwargs \in KwargTuples,
          path \in Paths, require_auth \in BOOLEAN, upload_api \in BOOLEAN,
          m \in HttpMethods, uc \in BOOLEAN, create \in BOOLEAN :
          BindApi(allowed_param, args, kwargs, path, require_auth, upload_api,
                  m, uc, create)
    \/ Propagate
    \/ Finally
    \/ CacheHitReturn
    \/ CacheMiss
    \/ LoopHead
    \/ ApplyAuth
    \/ \E status \in Statuses : \E h \in HeadersOf(status) : SendResponse(status, h)
    \/ SendFails
    \/ Classify
    \/ \E text \in ErrorBodies : After(text)
    \/ \E result \in Results : Parse(result)
    \/ ParseFails
    \/ CacheExpire

Spec == Init /\ [][Next]_vars

SpecTwice == InitTwice /\ [][Next]_vars

SpecSame == InitSame /\ [][Next]_vars

SpecSeq == InitSeq /\ [][Next]_vars

(* the call of a caller that fixes the arguments of the build *)
NextBuild ==
    \/ BindGiven
    \/ Propagate
    \/ Finally
    \/ CacheMiss
    \/ LoopHead
    \/ ApplyAuth
    \/ \E status \in Statuses : \E h \in HeadersOf(status) : SendResponse(status, h)
    \/ Classify
    \/ \E result \in Results : Parse(result)
    \/ \E text \in ErrorBodies : After(text)

SpecBuild == InitBuild /\ [][NextBuild]_vars

(* the steps of two invokers bound to the same api, interleaved *)
NextTwo ==
    \/ Next
    \/ OtherStart
    \/ \E path \in Paths : OtherCacheHit(path)
    \/ \E path \in Paths : OtherCacheMiss(path)
    \/ \E status \in Statuses : OtherLoop(status)
    \/ OtherSendFails
    \/ OtherAfter
    \/ \E path \in Paths, result \in Results : OtherParse(path, result)

SpecTwo == InitTwo /\ [][NextTwo]_vars

(* ---------------------------------------------------------------------- *)
(* Properties                                                              *)
(* ---------------------------------------------------------------------- *)

TransportFailure == outcome.msg = "Failed to send request"

ConstructionErrors ==
    {"Authentication required!", "Too many parameters supplied!",
     "Multiple values for parameter supplied!"}

(* execute has ended: by a return or by a raise *)
ExecuteEnded == pc = "finally" /\ outcome.val # "method"

(* C1, as stated: a single execute issues at most retry_count + 1 send   *)
(* attempts, whatever the server answers.                                 *)
C1_SendsWithinBudget == sends <= retry_count + 1

(* C1, amended: a single execute issues at most retry_count + 1 send     *)
(* attempts beyond those answered by a 420/429 under wait_on_rate_limit   *)
(* with no remaining calls, each of which the loop repeats through        *)
(* continue without consuming the retry budget.                           *)
C1_SendsWithinBudgetAndContinues ==
    /\ sends <= retry_count + 1 + continues
    /\ retries_performed <= retry_count + 1

(* C1 witness: execute ended with the budget used up and a continue on   *)
(* top of it                                                              *)
C1_Witness ==
    /\ ExecuteEnded
    /\ continues >= 1
    /\ sends = retry_count + 1 + continues
    /\ retries_performed = retry_count + 1

(* the server answers every send with one non-2xx status of the          *)
(* allow-list, and no send failed at the transport                        *)
SameListedStatus ==
    /\ server_status # 0
    /\ ~Is2xx(server_status)
    /\ server_status \in retry_errors
    /\ ~TransportFailure

(* C2, as stated: if every send returns the same non-2xx status of the   *)
(* allow-list, execute performs exactly retry_count + 1 sends and then    *)
(* raises an API error.                                                   *)
C2_ExactlyBudgetSends ==
    SameListedStatus =>
        /\ sends <= retry_count + 1
        /\ (ExecuteEnded /\ ~cached_result) =>
              /\ sends = retry_count + 1
              /\ outcome.kind = "raise"

(* C2, amended: if every send returns the same non-2xx status of the     *)
(* allow-list and no response is a 420/429 repeated through continue      *)
(* (wait_on_rate_limit with no remaining calls), execute performs exactly *)
(* retry_count + 1 sends and then raises an API error carrying the last   *)
(* response.                                                              *)
C2_ExactlyBudgetSendsNoContinue ==
    (SameListedStatus /\ continues = 0) =>
        /\ sends <= retry_count + 1
        /\ (ExecuteEnded /\ ~cached_result) =>
              /\ sends = retry_count + 1
              /\ outcome.kind = "raise"
              /\ outcome.val \in {"TweepError", "RateLimitError"}
              /\ last_response = Some([status |-> server_status, attempt |-> sends])

(* C2 witness: the budget of a retrying configuration is used up on one  *)
(* listed status and the error is raised                                  *)
C2_Witness ==
    /\ SameListedStatus
    /\ continues = 0
    /\ ExecuteEnded
    /\ retry_count = MaxRetryCount
    /\ sends = retry_count + 1
    /\ outcome.kind = "raise"

(* C3: when session.request raises, execute raises at once: the step     *)
(* goes to the finally clause with no sleep, no retry increment and no    *)
(* cache write, and after it nothing but the session close happens.       *)
C3_TransportFailureAborts ==
    [][ /\ (pc = "send" /\ outcome'.msg = "Failed to send request") =>
              /\ pc' = "finally"
              /\ outcome'.kind = "raise"
              /\ UNCHANGED <<sleeps, retries_performed, now, cache,
                             cache_writes, last_response, resp>>
        /\ (TransportFailure /\ pc # "idle") =>
              /\ pc' = "idle"
              /\ UNCHANGED <<sends, sleeps, retries_performed, cache,
                             cache_writes, outcome>>
      ]_vars

(* C3 witness: a send failed while retry budget remained *)
C3_Witness ==
    /\ pc = "finally"
    /\ TransportFailure
    /\ retries_performed < retry_count

(* the response being classified has a non-2xx status outside the        *)
(* configured allow-list                                                  *)
UnlistedStatus ==
    /\ pc = "classify"
    /\ retry_errors # {}
    /\ ~Is2xx(resp[1].status)
    /\ resp[1].status \notin retry_errors

(* the loop is left at once and the error of the response is raised *)
LeavesLoopAndRaises ==
    /\ pc' = "after"
    /\ UNCHANGED <<sends, sleeps, retries_performed, now>>

(* the response kept after the loop is raised as it is *)
RaisesLastResponse ==
    (pc = "after" /\ ~Is2xx(resp[1].status)) =>
        /\ pc' = "finally"
        /\ outcome'.kind = "raise"
        /\ last_response' = resp
        /\ UNCHANGED <<sends, sleeps, retries_performed>>

(* C4, as stated: with an allow-list configured, a non-2xx status        *)
(* outside it makes execute leave the loop at once (no sleep, no send, no *)
(* retry increment) and raise the error of that response.                 *)
C4_UnlistedStatusBreaks ==
    [][ /\ UnlistedStatus => LeavesLoopAndRaises
        /\ RaisesLastResponse ]_vars

(* C4, amended: with an allow-list configured, a non-2xx status outside  *)
(* it, other than a 420/429 under wait_on_rate_limit, makes execute leave *)
(* the loop at once (no sleep, no send, no retry increment) and raise the *)
(* error of that response.                                                *)
C4_UnlistedStatusBreaksUnlessRateLimited ==
    [][ /\ (UnlistedStatus
             /\ ~(resp[1].status \in {420, 429} /\ wait_on_rate_limit))
              => LeavesLoopAndRaises
        /\ RaisesLastResponse ]_vars

(* C4 witness: the loop was left on the first response with budget left *)
C4_Witness ==
    /\ pc = "after"
    /\ retry_errors # {}
    /\ ~Is2xx(resp[1].status)
    /\ resp[1].status \notin retry_errors
    /\ sends = 1
    /\ sleeps = 0
    /\ retries_performed = 0
    /\ retry_count >= 1

(* the second of two executed GET calls with caching and the same key *)
SecondOfTwin ==
    /\ calls = 2
    /\ ExecuteEnded
    /\ UsesCache
    /\ prev # None
    /\ prev[1].cacheable
    /\ prev[1].executed
    /\ prev[1].key = CacheKey(url, params)

(* C5, as stated: a GET call with caching, issued twice with the same    *)
(* path and parameters, issues at most one send in total and the second   *)
(* call returns a cache-sourced result.                                   *)
C5_TwiceOneSend ==
    SecondOfTwin =>
        /\ prev[1].sends + sends <= 1
        /\ cached_result

(* C5, amended: a GET call with caching, issued twice with the same path *)
(* and parameters, where the cache holds an entry for the key when the    *)
(* second call starts (the first call found or stored a non-empty result  *)
(* and the cache kept it), issues no send in the second call, so at most  *)
(* one in total when the first call needed at most one, and the second    *)
(* call returns the cache-sourced result.                                 *)
C5_TwiceSecondFromCache ==
    (SecondOfTwin /\ prev[1].held) =>
        /\ sends = 0
        /\ (prev[1].sends <= 1 => prev[1].sends + sends <= 1)
        /\ cached_result
        /\ outcome.kind = "return"
        /\ <<prev[1].key, outcome.val>> \in cache

(* C5 witness: the first call sent once and stored, the second hit *)
C5_Witness ==
    /\ SecondOfTwin
    /\ prev[1].held
    /\ prev[1].sends = 1
    /\ prev[1].cache_writes # <<>>
    /\ cached_result
    /\ sends = 0

(* C6: on a cache hit execute returns at once: no send, no apply_auth,   *)
(* no sleep, no cache write, and the rate-limit state, the clock and      *)
(* api.last_response stay as they were.                                   *)
C6_CacheHitFrame ==
    [][ (pc = "execute" /\ cached_result') =>
           /\ pc' = "finally"
           /\ outcome'.kind = "return"
           /\ sends' = 0 /\ applies' = 0 /\ sleeps' = 0
           /\ cache_writes' = <<>>
           /\ UNCHANGED <<cache, remaining_calls, reset_time, last_response,
                          now, resp>>
      ]_vars

(* C6 witness: a hit on an api whose last response is from an earlier call *)
C6_Witness ==
    /\ ExecuteEnded
    /\ cached_result
    /\ outcome.kind = "return"
    /\ last_response # None
    /\ sends = 0

(* C7: a GET execute with use_cache and a cache that got a 2xx response  *)
(* writes nothing when the parsed result is empty, and writes the result  *)
(* exactly once, under the key of its lookup, when it is not.             *)
C7_CacheWrite ==
    (ExecuteEnded /\ UsesCache /\ outcome.kind = "return" /\ ~cached_result) =>
        /\ Len(cache_reads) = 1
        /\ IF outcome.val = ""
           THEN cache_writes = <<>>
           ELSE /\ cache_writes = << <<cache_reads[1], outcome.val>> >>
                /\ <<cache_reads[1], outcome.val>> \in cache

(* C7 witness: a non-empty result of a call with parameters, got on a    *)
(* retry, was stored                                                      *)
C7_Witness ==
    /\ ExecuteEnded
    /\ UsesCache
    /\ params # <<>>
    /\ sends >= 2
    /\ cache_writes # <<>>
    /\ outcome.val # ""

(* C8: an iteration that starts with wait_on_rate_limit, no remaining    *)
(* calls and a reset time after now sleeps reset_time - now + 1 seconds,  *)
(* at least reset_time - now, before its send.                            *)
C8_GateSleeps ==
    [][ (pc = "loop" /\ retries_performed < retry_count + 1
          /\ wait_on_rate_limit
          /\ remaining_calls # None /\ remaining_calls[1] < 1
          /\ reset_time # None /\ reset_time[1] > now) =>
           /\ now' - now >= reset_time[1] - now
           /\ now' - now = reset_time[1] - now + 1
           /\ sleeps' = sleeps + 1
           /\ sends' = sends
           /\ pc' = "auth"
      ]_vars

(* C8 witness: the gate has slept up to the second after the reset time *)
C8_Witness ==
    /\ pc = "auth"
    /\ wait_on_rate_limit
    /\ remaining_calls = Some(0)
    /\ reset_time # None
    /\ now = reset_time[1] + 1
    /\ sleeps >= 1

(* a 429 with a retry-after header is being classified, calls remain     *)
(* and the loop goes on to another attempt                                *)
RetryAfter429 ==
    /\ pc = "classify"
    /\ resp[1].status = 429
    /\ headers.retry_after # None
    /\ remaining_calls' # None
    /\ remaining_calls'[1] > 0
    /\ pc' = "loop"
    /\ retries_performed' < retry_count + 1

(* C9, as stated: after a 429 with retry-after d and remaining calls > 0 *)
(* the next send is preceded by a sleep of at least d seconds.            *)
C9_RetryAfterHonoured ==
    [][ RetryAfter429 => now' - now >= IntOf(headers.retry_after[1]) ]_vars

(* C9, amended: with wait_on_rate_limit enabled, after a 429 with        *)
(* retry-after d and remaining calls > 0 the next send is preceded by a   *)
(* sleep of d seconds, not of the default retry delay.                    *)
C9_RetryAfterHonouredWhenWaiting ==
    [][ (RetryAfter429 /\ wait_on_rate_limit) =>
           /\ now' - now >= IntOf(headers.retry_after[1])
           /\ sleeps' = sleeps + 1
           /\ sends' = sends
      ]_vars

(* C9 witness: the second send is due five seconds after the start *)
C9_Witness ==
    /\ pc = "send"
    /\ wait_on_rate_limit
    /\ sends = 1
    /\ resp # None
    /\ resp[1].status = 429
    /\ remaining_calls = Some(1)
    /\ now = StartTime + 5

(* C10: a construction-time failure (authentication required, too many   *)
(* parameters, duplicate parameter) is raised with no send, no apply_auth *)
(* and no cache read or write of that call.                               *)
C10_ConstructionFailsBeforeIO ==
    (outcome.kind = "raise" /\ outcome.msg \in ConstructionErrors) =>
        /\ sends = 0
        /\ applies = 0
        /\ cache_reads = <<>>
        /\ cache_writes = <<>>
        /\ pc \in {"raised", "idle"}

(* C10 witness: a duplicate parameter was refused on an api with a cache *)
C10_Witness ==
    /\ pc = "raised"
    /\ outcome.msg = "Multiple values for parameter supplied!"
    /\ cache_configured
    /\ auth

(* the bind_api call of the given arguments has built, or refused, its   *)
(* parameters                                                             *)
Built == calls = 1

TooManyRaised ==
    /\ outcome.kind = "raise"
    /\ outcome.msg = "Too many parameters supplied!"
    /\ session # "closed"
    /\ url = ""

DuplicateRaised ==
    /\ outcome.kind = "raise"
    /\ outcome.msg = "Multiple values for parameter supplied!"
    /\ session # "closed"
    /\ url = ""

(* one positional argument more than the schema has names *)
OneArgTooMany == Len(given.args) = Len(given.allowed_param) + 1

(* C11, as stated: for every schema of length n and every tuple of n + 1 *)
(* positional arguments, build_parameters fails with the too-many-        *)
(* parameters error and no method object with a parameter set results.    *)
C11_OneTooManyFails ==
    (Built /\ OneArgTooMany) => TooManyRaised

(* C11, amended: for every schema of length n and every tuple of n + 1   *)
(* positional arguments, build_parameters fails with the too-many-        *)
(* parameters error, and no method object with a parameter set results,   *)
(* exactly when the last argument is not None; a None in that place is     *)
(* skipped like every None argument.                                       *)
C11_OneTooManyFailsUnlessNone ==
    (Built /\ OneArgTooMany) =>
        IF given.args[Len(given.args)] # "None"
        THEN TooManyRaised
        ELSE outcome.msg # "Too many parameters supplied!"

(* C11 witness: the second of two arguments was refused by a schema of   *)
(* one name, after the first was taken                                    *)
C11_Witness ==
    /\ Built
    /\ Len(given.allowed_param) = 1
    /\ given.args = <<"int 7", "int 7">>
    /\ TooManyRaised
    /\ params = <<<<given.allowed_param[1], "7">>>>

(* the name k has a schema position for which a positional argument was  *)
(* passed, and is the name of a keyword argument                          *)
PassedBoth(k) ==
    /\ \E i \in 1..Len(given.args) :
          i <= Len(given.allowed_param) /\ given.allowed_param[i] = k
    /\ \E j \in 1..Len(given.kwargs) : given.kwargs[j][1] = k

(* as PassedBoth, with a value other than None on both sides *)
PassedBothNotNone(k) ==
    /\ \E i \in 1..Len(given.args) :
          /\ i <= Len(given.allowed_param)
          /\ given.allowed_param[i] = k
          /\ given.args[i] # "None"
    /\ \E j \in 1..Len(given.kwargs) :
          given.kwargs[j][1] = k /\ given.kwargs[j][2] # "None"

(* a positional argument other than None lies beyond the schema *)
ArgBeyondSchema ==
    \E i \in 1..Len(given.args) :
        i > Len(given.allowed_param) /\ given.args[i] # "None"

(* C12, as stated: for every name k supplied both through its schema     *)
(* position and as a keyword argument, build_parameters fails with the    *)
(* duplicate-parameter error.                                             *)
C12_BothFails ==
    (Built /\ \E k \in ParamNames : PassedBoth(k)) => DuplicateRaised

(* C12, amended: for every name k supplied with a value other than None  *)
(* both through its schema position and as a keyword argument,            *)
(* build_parameters fails: with the too-many-parameters error when a      *)
(* positional argument other than None lies beyond the schema, with the   *)
(* duplicate-parameter error otherwise.                                   *)
C12_BothNotNoneFails ==
    (Built /\ \E k \in ParamNames : PassedBothNotNone(k)) =>
        IF ArgBeyondSchema THEN TooManyRaised ELSE DuplicateRaised

(* C12 witness: the second schema name was passed twice, after a first   *)
(* keyword argument was accepted                                          *)
C12_Witness ==
    /\ Built
    /\ Len(given.allowed_param) = 2
    /\ given.args = <<"None", "int 7">>
    /\ Len(given.kwargs) = 2
    /\ given.kwargs[1][1] # given.allowed_param[2]
    /\ given.kwargs[1][2] # "None"
    /\ given.kwargs[2] = <<given.allowed_param[2], "int 7">>
    /\ DuplicateRaised
    /\ Len(params) = 2

(* the messages parse_error can give for a body, or the synthesized      *)
(* message of the status when it fails                                    *)
MessagesFor(status) ==
    {IF parse_error(text).ok
     THEN parse_error(text).msg
     ELSE "Twitter error response: status code = " \o StatusStr(status) :
        text \in ErrorBodies}

(* C13: when the loop ends with a non-2xx response, the step after it    *)
(* raises: a RateLimitError if and only if the message got for the        *)
(* response (from parse_error, or synthesized from the status when        *)
(* parse_error fails) matches the rate-limit signature, a TweepError       *)
(* otherwise; the response raised is the last one received, and nothing    *)
(* is returned, parsed or cached.                                          *)
C13_ErrorClassifiedByMessage ==
    [][ (pc = "after" /\ ~Is2xx(resp[1].status)) =>
           /\ pc' = "finally"
           /\ outcome'.kind = "raise"
           /\ outcome'.msg \in MessagesFor(resp[1].status)
           /\ outcome'.val =
                 (IF is_rate_limit_error_message(outcome'.msg)
                  THEN "RateLimitError" ELSE "TweepError")
           /\ resp[1].attempt = sends
           /\ last_response' = resp
           /\ UNCHANGED <<resp, sends, cache, cache_writes, cached_result>>
      ]_vars

(* C13 witness: a rate-limit error raised for a 500 once the budget of a *)
(* retrying configuration is used up                                      *)
C13_Witness ==
    /\ pc = "finally"
    /\ outcome.val = "RateLimitError"
    /\ is_rate_limit_error_message(outcome.msg)
    /\ resp[1].status = 500
    /\ retry_count = MaxRetryCount
    /\ retries_performed = retry_count + 1
    /\ last_response = resp

(* a bind_api call is over: it returned or raised to its caller *)
CallOver == pc = "idle" /\ calls > 0

(* C14: the session created for a call is closed on every exit path of   *)
(* the call: result, cache hit, API or rate-limit error, transport        *)
(* failure and construction-time failure.                                 *)
C14_SessionClosedOnEveryExit ==
    CallOver => session = "closed"

(* the execute that ended returned the value of its cache lookup *)
OwnResultFromCache == sends = 0 /\ outcome.kind = "return"

(* the execute that ended came past its loop with a response *)
OwnResponseKept == resp # None /\ ~TransportFailure

(* C15: two invokers bound to the same api, their execute steps          *)
(* interleaved, share no mutable state: when the execute of one has       *)
(* ended, api.cached_result and api.last_response describe that call.     *)
C15_MarkersDescribeOwnCall ==
    ExecuteEnded =>
        /\ cached_result = OwnResultFromCache
        /\ OwnResponseKept => last_response = resp

(* C16: a single execute of a non-GET call delivers the request to the  *)
(* server exactly once: no second send follows an attempt that reached    *)
(* the server and was answered.                                           *)
C16_NonGetSentOnce ==
    http_method # "GET" => sends <= 1

(* the response being classified is a 420/429 under wait_on_rate_limit   *)
(* that leaves no remaining calls                                          *)
RateLimitedNoneLeft ==
    /\ pc = "classify"
    /\ resp[1].status \in {420, 429}
    /\ wait_on_rate_limit
    /\ remaining_calls' = Some(0)

(* the loop head is reached from the continue statement: only that path  *)
(* leaves a 420/429 under wait_on_rate_limit with no remaining calls       *)
AtHeadAfterContinue ==
    /\ pc = "loop"
    /\ resp # None
    /\ resp[1].status \in {420, 429}
    /\ wait_on_rate_limit
    /\ remaining_calls = Some(0)

(* C17: after a 420/429 with wait_on_rate_limit and no remaining calls   *)
(* the loop continues with no retry-delay sleep and no increment of        *)
(* retries_performed, and the next send is preceded by a wait of the       *)
(* rate-limit gate computed from the reset time: no back-to-back re-send.  *)
C17_ContinueThenGateWait ==
    [][ /\ RateLimitedNoneLeft =>
              /\ pc' = "loop"
              /\ UNCHANGED <<sleeps, now, retries_performed, sends>>
        /\ AtHeadAfterContinue =>
              /\ pc' = "auth"
              /\ reset_time # None
              /\ sleeps' = sleeps + 1
              /\ now' > now
              /\ now' = reset_time[1] + 1
      ]_vars

(* C18: in every iteration the rate-limit gate comes first, then the     *)
(* auth apply, then the send: a send is made only from the step after the  *)
(* apply, the apply only from the step after the loop head with its gate,  *)
(* and with an auth strategy configured each send attempt follows exactly  *)
(* one apply_auth call made since the previous attempt, so that an         *)
(* execute ends with as many apply_auth calls as send attempts.            *)
C18_GateAuthSend ==
    [][ /\ (pc # "idle" /\ sends' # sends) =>
              /\ pc = "send"
              /\ sends' = sends + 1
              /\ applies' = applies
              /\ auth => applies = sends + 1
        /\ (pc # "idle" /\ applies' # applies) =>
              /\ pc = "auth"
              /\ auth
              /\ applies = sends
              /\ applies' = applies + 1
        /\ pc' = "send" => pc = "auth"
        /\ pc' = "auth" =>
              /\ pc = "loop"
              /\ retries_performed < retry_count + 1
              /\ UNCHANGED <<sends, applies>>
        /\ (pc' = "finally" /\ outcome'.val # "method") =>
              applies' = (IF auth THEN sends' ELSE 0)
      ]_vars

(* C18 witness: an execute with auth ended after a gate wait and two     *)
(* attempts, each with its apply                                          *)
C18_Witness ==
    /\ ExecuteEnded
    /\ auth
    /\ sleeps >= 1
    /\ continues >= 1
    /\ reset_time # None
    /\ now = reset_time[1] + 1
    /\ sends = 2
    /\ applies = 2

(* a non-2xx response is being classified *)
ClassifiesNon2xx == pc = "classify" /\ ~Is2xx(resp[1].status)

(* C19: the rate-limit state of an invoker, unknown at construction,     *)
(* changes only when a non-2xx response is classified: _remaining_calls    *)
(* becomes the value of the remaining header if present, else the          *)
(* previous value minus one if it was known, else stays unknown;           *)
(* _reset_time becomes the value of the reset header if present, else is   *)
(* unchanged.  A 2xx response, a cache hit, a transport failure, a sleep   *)
(* and an auth call leave both as they are.                                *)
C19_RateStateFrame ==
    [][ /\ ClassifiesNon2xx =>
              /\ remaining_calls' =
                    (IF headers.remaining # None
                     THEN Some(IntOf(headers.remaining[1]))
                     ELSE IF remaining_calls # None
                          THEN Some(remaining_calls[1] - 1)
                          ELSE None)
              /\ reset_time' =
                    (IF headers.reset # None
                     THEN Some(IntOf(headers.reset[1]))
                     ELSE reset_time)
        /\ (pc # "idle" /\ ~ClassifiesNon2xx) =>
              UNCHANGED <<remaining_calls, reset_time>>
        /\ (pc = "idle" /\ calls' # calls) =>
              remaining_calls' = None /\ reset_time' = None
      ]_vars

(* C19 witness: a remaining count of 0 taken from a header was           *)
(* decremented on a later response without the header, the reset time     *)
(* kept                                                                    *)
C19_Witness ==
    /\ pc = "after"
    /\ sends = 2
    /\ remaining_calls = Some(0 - 1)
    /\ reset_time = Some(IntOf(ResetFuture))

(* execute is past its cache phase and has not ended *)
InLoopOrAfter == pc \in {"loop", "auth", "send", "classify", "after", "parse"}

(* C20: api.cached_result is reset at the start of every execute and is  *)
(* true when execute ends if and only if that execute returned the value   *)
(* of its cache lookup without a send attempt; an execute that made a      *)
(* send attempt or raised ends with it false.                              *)
C20_MarkerTracksCacheHit ==
    [][ /\ pc = "execute" =>
              /\ cached_result' = (pc' = "finally")
              /\ cached_result' =>
                    /\ outcome'.kind = "return"
                    /\ sends' = 0
                    /\ <<CacheKey(url, params), outcome'.val>> \in cache
        /\ InLoopOrAfter => ~cached_result /\ ~cached_result'
        /\ (pc' = "finally" /\ outcome'.val # "method") =>
              /\ cached_result' = (sends' = 0 /\ outcome'.kind = "return")
              /\ (sends' > 0 \/ outcome'.kind = "raise") => ~cached_result'
      ]_vars

(* C20 witness: the call after a cache hit sent a request and ended with *)
(* the marker reset                                                        *)
C20_Witness ==
    /\ calls = 2
    /\ ExecuteEnded
    /\ prev # None
    /\ prev[1].executed
    /\ prev[1].sends = 0
    /\ prev[1].held
    /\ sends >= 1
    /\ ~cached_result

====
